---------------------------- MODULE Spec2Model ----------------------------
(***************************************************************************)
(* The N-body gravity toy of src/src/simulation.cpp: the body store        *)
(* (celestialBodies), its rebuild (resetSimulation), the physics step      *)
(* (updatePhysics), the instance buffers it publishes, and the frame loop  *)
(* of main() that drives them (UI panel, step, render).                    *)
(*                                                                         *)
(* Numbers.  The program computes in single-precision floats: every        *)
(* arithmetic operation rounds its exact result to a representable value.  *)
(* The model keeps that: a float is an integer count of 1/Unit, and every  *)
(* product, quotient and square root is rounded (towards zero) back onto   *)
(* that grid, so that (a*b)*c and (a*c)*b may differ as they do in the     *)
(* program.  Configuration values are in model units (the program's        *)
(* defaults are scaled down to keep them on the grid).                     *)
(***************************************************************************)
EXTENDS Integers, Sequences, FiniteSets, TLC

(***************************************************************************)
(* Bounds of the model.                                                    *)
(***************************************************************************)
MaxFrames == 2
MaxAsteroids == 2

(***************************************************************************)
(* float arithmetic on the grid of multiples of 1/Unit                     *)
(***************************************************************************)
Unit == 10

Abs(a) == IF a < 0 THEN -a ELSE a

Sgn(a) == IF a < 0 THEN -1 ELSE IF a > 0 THEN 1 ELSE 0

\* a * b
FMul(a, b) == Sgn(a) * Sgn(b) * ((Abs(a) * Abs(b)) \div Unit)

\* a / b, b # 0
FDiv(a, b) == Sgn(a) * Sgn(b) * ((Abs(a) * Unit) \div Abs(b))

RECURSIVE ISqrtBetween(_, _, _)
ISqrtBetween(n, lo, hi) ==
    IF lo >= hi THEN lo
    ELSE LET mid == (lo + hi + 1) \div 2
         IN  IF mid * mid <= n THEN ISqrtBetween(n, mid, hi)
             ELSE ISqrtBetween(n, lo, mid - 1)

\* sqrt(a), a >= 0 (the search stays below the root of the largest integer)
FSqrt(a) == ISqrtBetween(a * Unit, 0, IF a * Unit > 46340 THEN 46340 ELSE a * Unit)

\* the float literal 1.0f, 2.0f
One == Unit
Two == 2 * Unit

(***************************************************************************)
(* glm::vec3                                                               *)
(***************************************************************************)
Vec3(x, y, z) == <<x, y, z>>

Zero3 == <<0, 0, 0>>

VAdd(a, b) == <<a[1] + b[1], a[2] + b[2], a[3] + b[3]>>

VSub(a, b) == <<a[1] - b[1], a[2] - b[2], a[3] - b[3]>>

VNeg(a) == <<-a[1], -a[2], -a[3]>>

\* v * s and s * v
VScale(v, s) == <<FMul(v[1], s), FMul(v[2], s), FMul(v[3], s)>>

\* v / s
VDiv(v, s) == <<FDiv(v[1], s), FDiv(v[2], s), FDiv(v[3], s)>>

\* glm::dot
Dot(a, b) == FMul(a[1], b[1]) + FMul(a[2], b[2]) + FMul(a[3], b[3])

\* glm::normalize
Normalize(v) == VDiv(v, FSqrt(Dot(v, v)))

(***************************************************************************)
(* cos and sin of an angle given in degrees, for the multiples of 45       *)
(* degrees the model draws its angles from, and for 53 (53.13) degrees,    *)
(* whose cos 0.6 and sin 0.8 are on the grid; glm::radians only rescales.  *)
(***************************************************************************)
CosDeg(d) ==
    CASE d \in {0, 360} -> 10
      [] d = 53 -> 6
      [] d \in {45, 315} -> 7
      [] d \in {90, 270} -> 0
      [] d \in {135, 225} -> -7
      [] d = 180 -> -10

SinDeg(d) ==
    CASE d \in {0, 180, 360} -> 0
      [] d = 53 -> 8
      [] d \in {45, 135} -> 7
      [] d = 90 -> 10
      [] d \in {225, 315} -> -7
      [] d = 270 -> -10

(***************************************************************************)
(* glm::quat <<w, x, y, z>> and the matrices made from it                  *)
(***************************************************************************)
QuatIdentity == <<One, 0, 0, 0>>

\* glm::angleAxis(radians(deg), axis), deg a multiple of 90
AngleAxis(deg, axis) ==
    LET s == SinDeg(deg \div 2)
    IN  <<CosDeg(deg \div 2), FMul(axis[1], s), FMul(axis[2], s), FMul(axis[3], s)>>

\* glm::mat4_cast: the rotation matrix of a quaternion, as its three columns
Mat3Cast(q) ==
    LET w == q[1]  x == q[2]  y == q[3]  z == q[4]
        xx == FMul(x, x)  yy == FMul(y, y)  zz == FMul(z, z)
        xy == FMul(x, y)  xz == FMul(x, z)  yz == FMul(y, z)
        wx == FMul(w, x)  wy == FMul(w, y)  wz == FMul(w, z)
    IN  << <<One - FMul(Two, yy + zz), FMul(Two, xy + wz), FMul(Two, xz - wy)>>,
           <<FMul(Two, xy - wz), One - FMul(Two, xx + zz), FMul(Two, yz + wx)>>,
           <<FMul(Two, xz + wy), FMul(Two, yz - wx), One - FMul(Two, xx + yy)>> >>

\* translate(position) * mat4_cast(orientation) * scale(radiusScale): the upper
\* 3x3 block (three columns) and the translation column of the 4x4 matrix
ModelMatrixOf(position, orientation, radiusScale) ==
    LET rot == Mat3Cast(orientation)
    IN  [lin |-> <<VScale(rot[1], radiusScale), VScale(rot[2], radiusScale),
                   VScale(rot[3], radiusScale)>>,
         trans |-> position]

\* the value of a float matrix whose entries are inf or NaN
NaNMatrix == [nan |-> TRUE]

\* the value of storage that was allocated and never written
Unwritten == [unwritten |-> TRUE]

Det3(m) ==
      FMul(m[1][1], FMul(m[2][2], m[3][3]) - FMul(m[3][2], m[2][3]))
    - FMul(m[2][1], FMul(m[1][2], m[3][3]) - FMul(m[3][2], m[1][3]))
    + FMul(m[3][1], FMul(m[1][2], m[2][3]) - FMul(m[2][2], m[1][3]))

\* glm::transpose(glm::inverse(glm::mat3(modelMatrix))): the cofactor matrix
\* times 1/det; a singular matrix gives inf/NaN entries
NormalMatrixOf(modelMatrix) ==
    LET m == modelMatrix.lin
        det == Det3(m)
        inv == IF det = 0 THEN 0 ELSE FDiv(One, det)
        Cof(c, r) ==
            LET c1 == (c % 3) + 1  c2 == ((c + 1) % 3) + 1
                r1 == (r % 3) + 1  r2 == ((r + 1) % 3) + 1
            IN  FMul(m[c1][r1], m[c2][r2]) - FMul(m[c1][r2], m[c2][r1])
    IN  IF det = 0 THEN NaNMatrix
        ELSE [cols |-> [c \in 1..3 |-> [r \in 1..3 |-> FMul(Cof(c, r), inv)]]]

(***************************************************************************)
(* struct CelestialBody                                                    *)
(***************************************************************************)
\* CelestialBody::updateModelMatrix
UpdateModelMatrix(b) ==
    [b EXCEPT !.modelMatrix = ModelMatrixOf(b.position, b.orientation, b.radiusScale)]

\* the constructor
CelestialBody(pos, vel, m, rScale, orient, stat, asteroid, t) ==
    UpdateModelMatrix(
        [position |-> pos, velocity |-> vel, acceleration |-> Zero3,
         mass |-> m, radiusScale |-> rScale, orientation |-> orient,
         modelMatrix |-> Unwritten,
         isStatic |-> stat, isAsteroid |-> asteroid, type |-> t])

\* mutant: the force is accumulated without the division by the mass
ApplyForceUndivided(b, force) ==
    IF b.isStatic \/ b.mass = 0 THEN b
    ELSE [b EXCEPT !.acceleration = VAdd(b.acceleration, force)]

\* CelestialBody::applyForce
ApplyForce(b, force) ==
    IF b.isStatic \/ b.mass = 0 THEN b
    ELSE [b EXCEPT !.acceleration = VAdd(b.acceleration, VDiv(force, b.mass))]

\* mutant: the acceleration is not reset after the integration
UpdateKeepsAcceleration(b, dt) ==
    IF b.isStatic
    THEN UpdateModelMatrix([b EXCEPT !.acceleration = Zero3])
    ELSE LET v == VAdd(b.velocity, VScale(b.acceleration, dt))
             p == VAdd(b.position, VScale(v, dt))
         IN  UpdateModelMatrix([b EXCEPT !.velocity = v, !.position = p])

\* mutant: the static branch returns without updateModelMatrix()
UpdateStaticKeepsMatrix(b, dt) ==
    IF b.isStatic
    THEN [b EXCEPT !.acceleration = Zero3]
    ELSE LET v == VAdd(b.velocity, VScale(b.acceleration, dt))
             p == VAdd(b.position, VScale(v, dt))
         IN  UpdateModelMatrix(
                 [b EXCEPT !.velocity = v, !.position = p, !.acceleration = Zero3])

\* mutant: explicit Euler, the position advances with the old velocity
UpdateExplicitEuler(b, dt) ==
    IF b.isStatic
    THEN UpdateModelMatrix([b EXCEPT !.acceleration = Zero3])
    ELSE LET v == VAdd(b.velocity, VScale(b.acceleration, dt))
             p == VAdd(b.position, VScale(b.velocity, dt))
         IN  UpdateModelMatrix(
                 [b EXCEPT !.velocity = v, !.position = p, !.acceleration = Zero3])

\* CelestialBody::update
Update(b, dt) ==
    IF b.isStatic
    THEN UpdateModelMatrix([b EXCEPT !.acceleration = Zero3])
    ELSE LET v == VAdd(b.velocity, VScale(b.acceleration, dt))
             p == VAdd(b.position, VScale(v, dt))
         IN  UpdateModelMatrix(
                 [b EXCEPT !.velocity = v, !.position = p, !.acceleration = Zero3])

(***************************************************************************)
(* The program's state: the globals of simulation.cpp, the contents of the *)
(* two GL instance buffers, and the position of main() in its frame loop.  *)
(***************************************************************************)
VARIABLES
    celestialBodies,            \* std::vector<CelestialBody>
    asteroidAmount,
    asteroidModelMatrices,      \* nullptr, or the array of asteroidAmount mat4
    asteroidNormalMatrices,     \* nullptr, or the array of asteroidAmount mat3
    asteroidInstanceVBO,        \* GL buffer name, 0 when there is none
    asteroidNormalInstanceVBO,
    glInstanceData,             \* contents of the buffer asteroidInstanceVBO names
    glNormalData,               \* contents of the buffer asteroidNormalInstanceVBO names
    sunMass, sunRadiusScale,
    planetMass, planetRadiusScale, planetOrbitRadius, planetInitialAngle,
    avgAsteroidMass, minAsteroidScale, maxAsteroidScale,
    asteroidBeltInnerRadius, asteroidBeltOuterRadius, asteroidBeltHeight,
    G_scaled, simulationSpeed, pauseSimulation,
    deltaTime,
    pc,                         \* where main() is in the current frame
    frame,                      \* frames started so far
    uiEvent,                    \* the widget that reported a change in this frame
    rebuilt,                    \* resetSimulation ran in this frame's UI pass
    uploaded,                   \* instances glBufferSubData sent in this frame's step, -1: no upload
    stepped,                    \* what this frame's updatePhysics did: "none", "noop", "full"
    drawn,                      \* what the draw calls of this frame read
    sunAtRebuild,               \* position and velocity of body 0 right after the last rebuild
    seedUsed,                   \* the value the generator was seeded with in the last rebuild
    predicted                   \* until the draw calls: the motion the step leaves if the panel changes nothing

bodyVars == <<celestialBodies>>

bufferVars == <<asteroidModelMatrices, asteroidNormalMatrices>>

glVars == <<asteroidInstanceVBO, asteroidNormalInstanceVBO, glInstanceData, glNormalData>>

sunVars == <<sunMass, sunRadiusScale>>

planetVars == <<planetMass, planetRadiusScale, planetOrbitRadius, planetInitialAngle>>

beltVars == <<avgAsteroidMass, minAsteroidScale, maxAsteroidScale,
              asteroidBeltInnerRadius, asteroidBeltOuterRadius, asteroidBeltHeight>>

controlVars == <<G_scaled, simulationSpeed, pauseSimulation>>

configVars == <<asteroidAmount, sunVars, planetVars, beltVars, controlVars>>

storeVars == <<bodyVars, bufferVars, glVars, sunAtRebuild, seedUsed>>

vars == <<storeVars, configVars, deltaTime, pc, frame, uiEvent, rebuilt,
          uploaded, stepped, drawn, predicted>>

\* a null array pointer: no array
nullptr == <<>>

\* the value of `drawn` when no draw call was made
NothingDrawn == [nothing |-> TRUE]

\* new Model(...) never yields a null pointer
rockModelPtr == TRUE

planetModelPtr == TRUE

(***************************************************************************)
(* std::mt19937 and std::uniform_real_distribution<float>: a generator     *)
(* whose output sequence is a function of its seed; one output per draw.   *)
(***************************************************************************)
RngModulus == 16

RngSeed(seed) == seed % RngModulus

RngNext(s) == (5 * s + 3) % RngModulus

\* the generator's output at the k-th draw after seeding, k = 0, 1, ...
RECURSIVE RngAt(_, _)
RngAt(seed, k) == IF k = 0 THEN RngSeed(seed) ELSE RngNext(RngAt(seed, k - 1))

\* uniform_real_distribution<float>(lo, hi) applied to generator output u
Uniform(lo, hi, u) == lo + ((hi - lo) * u) \div RngModulus

\* an angle drawn from [0, 360) degrees, on the model's grid of `step` degrees
UniformAngle(step, u) == step * (((360 \div step) * u) \div RngModulus)

(***************************************************************************)
(* initializeCelestialBodies                                               *)
(***************************************************************************)
DrawsPerAsteroid == 12

\* mutant: the test of the radius left out; the division by zero gives inf,
\* for which the largest value of the model stands
OrbitalVelMagUnguarded(radius) ==
    IF sunMass > 0
    THEN (IF radius = 0 THEN 46340 ELSE FSqrt(FDiv(FMul(G_scaled, sunMass), radius)))
    ELSE 0

OrbitalVelMag(radius) ==
    IF sunMass > 0 /\ radius > 0 THEN FSqrt(FDiv(FMul(G_scaled, sunMass), radius)) ELSE 0

Sun ==
    CelestialBody(Zero3, Zero3, sunMass, sunRadiusScale, QuatIdentity, FALSE, FALSE, 0)

\* mutant: the velocity is laid along the position vector
PlanetRadialVelocity ==
    LET c == CosDeg(planetInitialAngle)
        s == SinDeg(planetInitialAngle)
        planetPos == Vec3(FMul(planetOrbitRadius, c), 0, FMul(planetOrbitRadius, s))
        orbitalVelMag == OrbitalVelMag(planetOrbitRadius)
        planetVel == Vec3(FMul(orbitalVelMag, c), 0, FMul(orbitalVelMag, s))
    IN  CelestialBody(planetPos, planetVel, planetMass, planetRadiusScale,
                      AngleAxis(0, Vec3(0, One, 0)), FALSE, FALSE, 1)

Planet ==
    LET c == CosDeg(planetInitialAngle)
        s == SinDeg(planetInitialAngle)
        planetPos == Vec3(FMul(planetOrbitRadius, c), 0, FMul(planetOrbitRadius, s))
        orbitalVelMag == OrbitalVelMag(planetOrbitRadius)
        planetVel == Vec3(FMul(-orbitalVelMag, s), 0, FMul(orbitalVelMag, c))
    IN  CelestialBody(planetPos, planetVel, planetMass, planetRadiusScale,
                      AngleAxis(0, Vec3(0, One, 0)), FALSE, FALSE, 1)

\* mutant: the generator is not seeded again, its stream goes on from the
\* draws made for the bodies already in the store
AsteroidContinuingStream(seed, i) ==
    LET past == DrawsPerAsteroid * Len(SelectSeq(celestialBodies, LAMBDA b : b.isAsteroid))
        U(k) == RngAt(seed, past + DrawsPerAsteroid * i + k)
        r == Uniform(asteroidBeltInnerRadius, asteroidBeltOuterRadius, U(0))
        angle == UniformAngle(45, U(1))
        y == Uniform(FDiv(-asteroidBeltHeight, Two), FDiv(asteroidBeltHeight, Two), U(2))
        pos == Vec3(FMul(r, CosDeg(angle)), y, FMul(r, SinDeg(angle)))
        velMag == OrbitalVelMag(r)
        tenth == FMul(velMag, Unit \div 10)
        vx == FMul(-velMag, SinDeg(angle)) + Uniform(-tenth, tenth, U(3))
        vy == 0 + FMul(Uniform(-tenth, tenth, U(4)), Unit \div 10)
        vz == FMul(velMag, CosDeg(angle)) + Uniform(-tenth, tenth, U(5))
        currentAsteroidMass == FMul(avgAsteroidMass, Uniform(Unit \div 2, (3 * Unit) \div 2, U(6)))
        currentAsteroidScale == Uniform(minAsteroidScale, maxAsteroidScale, U(7))
        randomAxis == Normalize(Vec3(Uniform(0, 360 * Unit, U(8)) + Unit \div 10,
                                     Uniform(0, 360 * Unit, U(9)) + Unit \div 10,
                                     Uniform(0, 360 * Unit, U(10)) + Unit \div 10))
        orientation == AngleAxis(UniformAngle(90, U(11)), randomAxis)
    IN  CelestialBody(pos, Vec3(vx, vy, vz), currentAsteroidMass, currentAsteroidScale,
                      orientation, FALSE, TRUE, 2)

\* the body made by iteration i (from 0) of the asteroid loop
Asteroid(seed, i) ==
    LET U(k) == RngAt(seed, DrawsPerAsteroid * i + k)
        r == Uniform(asteroidBeltInnerRadius, asteroidBeltOuterRadius, U(0))
        angle == UniformAngle(45, U(1))
        y == Uniform(FDiv(-asteroidBeltHeight, Two), FDiv(asteroidBeltHeight, Two), U(2))
        pos == Vec3(FMul(r, CosDeg(angle)), y, FMul(r, SinDeg(angle)))
        velMag == OrbitalVelMag(r)
        tenth == FMul(velMag, Unit \div 10)
        vx == FMul(-velMag, SinDeg(angle)) + Uniform(-tenth, tenth, U(3))
        vy == 0 + FMul(Uniform(-tenth, tenth, U(4)), Unit \div 10)
        vz == FMul(velMag, CosDeg(angle)) + Uniform(-tenth, tenth, U(5))
        currentAsteroidMass == FMul(avgAsteroidMass, Uniform(Unit \div 2, (3 * Unit) \div 2, U(6)))
        currentAsteroidScale == Uniform(minAsteroidScale, maxAsteroidScale, U(7))
        randomAxis == Normalize(Vec3(Uniform(0, 360 * Unit, U(8)) + Unit \div 10,
                                     Uniform(0, 360 * Unit, U(9)) + Unit \div 10,
                                     Uniform(0, 360 * Unit, U(10)) + Unit \div 10))
        orientation == AngleAxis(UniformAngle(90, U(11)), randomAxis)
    IN  CelestialBody(pos, Vec3(vx, vy, vz), currentAsteroidMass, currentAsteroidScale,
                      orientation, FALSE, TRUE, 2)

\* the body list the function leaves, with `amount` the value of asteroidAmount
\* it reads and `seed` the value of glfwGetTime() it seeds the generator with
BodiesBuilt(amount, seed) ==
    <<Sun, Planet>> \o [i \in 1..amount |-> Asteroid(seed, i - 1)]

\* mutant: the arrays are allocated one entry short
NewArrayOneShort(amount) ==
    IF amount > 1 THEN [k \in 1..(amount - 1) |-> Unwritten] ELSE nullptr

\* new glm::mat4[amount] / new glm::mat3[amount]: storage with no defined value
NewArray(amount) == IF amount > 0 THEN [k \in 1..amount |-> Unwritten] ELSE nullptr

\* mutant: the function without its celestialBodies.clear()
InitializeWithoutClear(amount, seed) ==
    /\ celestialBodies' = celestialBodies \o BodiesBuilt(amount, seed)
    /\ asteroidModelMatrices' = NewArray(amount)
    /\ asteroidNormalMatrices' = NewArray(amount)

InitializeCelestialBodies(amount, seed) ==
    /\ celestialBodies' = BodiesBuilt(amount, seed)
    /\ asteroidModelMatrices' = NewArray(amount)
    /\ asteroidNormalMatrices' = NewArray(amount)

(***************************************************************************)
(* setupAsteroidInstanceBuffers: the old buffers are deleted; when there   *)
(* are asteroids, two buffers of asteroidAmount entries are created by     *)
(* glBufferData(..., nullptr, ...), which leaves their contents undefined. *)
(***************************************************************************)
SetupAsteroidInstanceBuffers(amount) ==
    IF amount = 0 \/ ~rockModelPtr
    THEN /\ asteroidInstanceVBO' = 0
         /\ asteroidNormalInstanceVBO' = 0
         /\ glInstanceData' = <<>>
         /\ glNormalData' = <<>>
    ELSE /\ asteroidInstanceVBO' = 1
         /\ asteroidNormalInstanceVBO' = 2
         /\ glInstanceData' = [k \in 1..amount |-> Unwritten]
         /\ glNormalData' = [k \in 1..amount |-> Unwritten]

(***************************************************************************)
(* resetSimulation                                                         *)
(***************************************************************************)
ResetSimulation(amount, seed) ==
    /\ InitializeCelestialBodies(amount, seed)
    /\ SetupAsteroidInstanceBuffers(amount)
    /\ sunAtRebuild' = [position |-> celestialBodies'[1].position,
                        velocity |-> celestialBodies'[1].velocity]
    /\ seedUsed' = seed

(***************************************************************************)
(* updatePhysics                                                           *)
(***************************************************************************)
\* const float epsilon_sq = 1e-4f, in model units
EpsilonSq == 10

\* dt *= simulationSpeed
EffectiveDt == FMul(deltaTime, simulationSpeed)

\* mutant: the pause test left out
StepIsNoopIgnoringPause == EffectiveDt = 0

\* mutant: the dt == 0 test left out
StepIsNoopIgnoringDt == pauseSimulation

\* the two early returns
StepIsNoop == pauseSimulation \/ EffectiveDt = 0

\* r_vec of the pass (i, j) of the inner loop
RVec(bodies, i, j) == VSub(bodies[j].position, bodies[i].position)

\* mutant: the floor depends on which body of the pair comes first
RMagSqTwoFloors(bodies, i, j) ==
    LET r_dot == Dot(RVec(bodies, i, j), RVec(bodies, i, j))
    IN  IF r_dot < EpsilonSq THEN (IF i < j THEN EpsilonSq ELSE 2 * EpsilonSq) ELSE r_dot

\* mutant: the floor replaces only a squared distance of exactly zero
RMagSqFloorAtZeroOnly(bodies, i, j) ==
    LET r_dot == Dot(RVec(bodies, i, j), RVec(bodies, i, j))
    IN  IF r_dot = 0 THEN EpsilonSq ELSE r_dot

\* r_mag_sq after the softening floor
RMagSq(bodies, i, j) ==
    LET r_dot == Dot(RVec(bodies, i, j), RVec(bodies, i, j))
    IN  IF r_dot < EpsilonSq THEN EpsilonSq ELSE r_dot

\* r_hat
RHat(bodies, i, j) ==
    LET r_mag == FSqrt(RMagSq(bodies, i, j))
    IN  IF r_mag > 0 THEN VDiv(RVec(bodies, i, j), r_mag) ELSE Zero3

\* G_scaled * celestialBodies[i].mass * celestialBodies[j].mass, left to right
MassProduct(bodies, i, j) == FMul(FMul(G_scaled, bodies[i].mass), bodies[j].mass)

\* force_mag
ForceMag(bodies, i, j) == FDiv(MassProduct(bodies, i, j), RMagSq(bodies, i, j))

\* force_vec: the force on bodies[i] from bodies[j]
ForceVec(bodies, i, j) == VScale(RHat(bodies, i, j), ForceMag(bodies, i, j))

\* mutant: the asteroid-asteroid test left out
SkipsPairSelfOnly(bodies, i, j) == i = j

\* whether the inner loop skips the pair (i, j)
SkipsPair(bodies, i, j) ==
    \/ i = j
    \/ bodies[i].isAsteroid /\ bodies[j].isAsteroid

\* the inner loop over j = from..size-1 for body i, started with body b
RECURSIVE InnerLoop(_, _, _, _)
InnerLoop(bodies, i, from, b) ==
    IF from > Len(bodies) THEN b
    ELSE InnerLoop(bodies, i, from + 1,
                   IF SkipsPair(bodies, i, from) THEN b
                   ELSE ApplyForce(b, ForceVec(bodies, i, from)))

\* mutant: one loop, body i is moved as soon as its forces are accumulated,
\* and the bodies after it see it at its new position
AccumulateForcesInterleaved(bodies) ==
    LET RECURSIVE Pass(_, _)
        Pass(bs, i) ==
            IF i > Len(bs) THEN bs
            ELSE LET b == IF bs[i].isStatic THEN bs[i] ELSE InnerLoop(bs, i, 1, bs[i])
                     v == VAdd(b.velocity, VScale(b.acceleration, EffectiveDt))
                     moved == [b EXCEPT !.velocity = v,
                                        !.position = VAdd(b.position, VScale(v, EffectiveDt)),
                                        !.acceleration = Zero3]
                 IN  Pass([bs EXCEPT ![i] = moved], i + 1)
    IN  Pass(bodies, 1)

\* the force-accumulation loops: only the acceleration of body i is written in
\* pass i, and positions and masses are only read
AccumulateForces(bodies) ==
    [i \in 1..Len(bodies) |->
        IF bodies[i].isStatic THEN bodies[i] ELSE InnerLoop(bodies, i, 1, bodies[i])]

\* mutant: the loop erases the bodies without mass from the store
IntegrateAllErasingMassless(bodies, dt) ==
    LET kept == SelectSeq(bodies, LAMBDA b : b.mass # 0)
    IN  [i \in 1..Len(kept) |-> Update(kept[i], dt)]

\* mutant: the loop stores the updated bodies in reverse order
IntegrateAllReversed(bodies, dt) ==
    [i \in 1..Len(bodies) |-> Update(bodies[Len(bodies) + 1 - i], dt)]

\* celestialBodies[i].update(dt) for every i
IntegrateAll(bodies, dt) == [i \in 1..Len(bodies) |-> Update(bodies[i], dt)]

\* mutant: the isAsteroid test left out, every body takes a slot
RECURSIVE PublishLoopAllBodies(_, _, _, _, _)
PublishLoopAllBodies(bodies, from, idx, array, normal) ==
    IF from > Len(bodies) THEN [array |-> array, idx |-> idx]
    ELSE IF idx < asteroidAmount
         THEN PublishLoopAllBodies(bodies, from + 1, idx + 1,
                          [array EXCEPT ![idx + 1] =
                              IF normal THEN NormalMatrixOf(bodies[from].modelMatrix)
                              ELSE bodies[from].modelMatrix],
                          normal)
         ELSE PublishLoopAllBodies(bodies, from + 1, idx, array, normal)

\* the publish part of the second loop from body `from` on: the arrays and
\* asteroidInstanceIdx it ends with.  `normal` is FALSE for the mat4 array and
\* TRUE for the mat3 array.
RECURSIVE PublishLoop(_, _, _, _, _)
PublishLoop(bodies, from, idx, array, normal) ==
    IF from > Len(bodies) THEN [array |-> array, idx |-> idx]
    ELSE IF bodies[from].isAsteroid /\ idx < asteroidAmount
         THEN PublishLoop(bodies, from + 1, idx + 1,
                          [array EXCEPT ![idx + 1] =
                              IF normal THEN NormalMatrixOf(bodies[from].modelMatrix)
                              ELSE bodies[from].modelMatrix],
                          normal)
         ELSE PublishLoop(bodies, from + 1, idx, array, normal)

\* mutant: the upload starts at the offset of the second entry
BufferSubDataFromSecond(data, count, array) ==
    [k \in 1..Len(data) |-> IF 1 < k /\ k <= count + 1 THEN array[k - 1] ELSE data[k]]

\* mutant: the upload is one entry short
BufferSubDataShort(data, count, array) ==
    [k \in 1..Len(data) |-> IF k < count THEN array[k] ELSE data[k]]

\* glBufferSubData(GL_ARRAY_BUFFER, 0, count * sizeof(entry), array)
BufferSubData(data, count, array) ==
    [k \in 1..Len(data) |-> IF k <= count THEN array[k] ELSE data[k]]

\* whether the function uploads, having written idx instances
Uploads(idx) ==
    /\ asteroidAmount > 0
    /\ idx > 0
    /\ asteroidInstanceVBO # 0
    /\ asteroidNormalInstanceVBO # 0

\* the position and the velocity of every body
Motion(bodies) == [i \in 1..Len(bodies) |-> <<bodies[i].position, bodies[i].velocity>>]

\* what updatePhysics(dt) makes of celestialBodies, called in the current state
PredictedStep(dt) ==
    IF Len(celestialBodies) = 0 \/ pauseSimulation \/ FMul(dt, simulationSpeed) = 0
    THEN celestialBodies
    ELSE IntegrateAll(AccumulateForces(celestialBodies), FMul(dt, simulationSpeed))

(***************************************************************************)
(* Inputs: the frame times glfwGetTime() yields, the seeds it yields in    *)
(* initializeCelestialBodies, and the values the panel's widgets are set   *)
(* to (model units; a widget also takes typed-in values).                  *)
(***************************************************************************)
DtValues == {0, 10}

SeedValues == {0, 1}

SpeedValues == {0, 10, 20}

GValues == {5, 10}

SunMassValues == {0, 25, 80}

SunScaleValues == {20, 30}

PlanetMassValues == {-20, 0, 20}

PlanetScaleValues == {10, 20}

OrbitRadiusValues == {0, 5, 20}

InitialAngleValues == {0, 53}

AsteroidMassValues == {0, 10}

MinScaleValues == {10, 20}

MaxScaleValues == {20, 30}

InnerRadiusValues == {0, 30}

OuterRadiusValues == {50, 60}

BeltHeightValues == {10, 20}

AsteroidCounts == 0..MaxAsteroids

(***************************************************************************)
(* The state when main() enters its loop: the globals' initialisers, and   *)
(* the first resetSimulation().                                            *)
(***************************************************************************)
Init ==
    /\ asteroidAmount = 0
    /\ sunMass = 80
    /\ sunRadiusScale = 20
    /\ planetMass = 20
    /\ planetRadiusScale = 10
    /\ planetOrbitRadius = 20
    /\ planetInitialAngle = 0
    /\ avgAsteroidMass = 10
    /\ minAsteroidScale = 10
    /\ maxAsteroidScale = 20
    /\ asteroidBeltInnerRadius = 30
    /\ asteroidBeltOuterRadius = 50
    /\ asteroidBeltHeight = 10
    /\ G_scaled = 5
    /\ simulationSpeed = 10
    /\ pauseSimulation = FALSE
    /\ deltaTime = 0
    /\ celestialBodies = BodiesBuilt(0, 0)
    /\ asteroidModelMatrices = NewArray(0)
    /\ asteroidNormalMatrices = NewArray(0)
    /\ asteroidInstanceVBO = 0
    /\ asteroidNormalInstanceVBO = 0
    /\ glInstanceData = <<>>
    /\ glNormalData = <<>>
    /\ sunAtRebuild = [position |-> Zero3, velocity |-> Zero3]
    /\ seedUsed = 0
    /\ pc = "ui"
    /\ frame = 0
    /\ uiEvent = "none"
    /\ rebuilt = TRUE
    /\ uploaded = -1
    /\ stepped = "none"
    /\ drawn = NothingDrawn
    /\ predicted = Motion(celestialBodies)

(***************************************************************************)
(* main(): the panel.  One pass over the widgets per frame; at most one    *)
(* widget reports a change in a frame.  Every action below is the whole    *)
(* pass, from the frame's glfwGetTime() to ImGui::End(), for one widget.   *)
(***************************************************************************)
\* what every pass does: the frame's timing, and on to the step
PanelPass(event) ==
    /\ pc = "ui"
    /\ frame < MaxFrames
    /\ frame' = frame + 1
    /\ \E dt \in DtValues : deltaTime' = dt
    /\ predicted' = Motion(PredictedStep(deltaTime'))
    /\ uiEvent' = event
    /\ uploaded' = -1
    /\ stepped' = "none"
    /\ pc' = "step"
    /\ drawn' = NothingDrawn

\* a pass in which no resetSimulation() runs and no body is patched
KeepsStore == rebuilt' = FALSE /\ UNCHANGED storeVars

NoChange ==
    /\ PanelPass("none")
    /\ KeepsStore
    /\ UNCHANGED configVars

\* mutant: the checkbox is handled after updatePhysics has returned
PauseCheckboxLate ==
    /\ pc = "render"
    /\ uiEvent # "pause"
    /\ uiEvent' = "pause"
    /\ pauseSimulation' = ~pauseSimulation
    /\ UNCHANGED <<storeVars, asteroidAmount, sunVars, planetVars, beltVars, G_scaled,
                   simulationSpeed, deltaTime, pc, frame, rebuilt, uploaded, stepped,
                   drawn, predicted>>

PauseCheckbox ==
    /\ PanelPass("pause")
    /\ pauseSimulation' = ~pauseSimulation
    /\ KeepsStore
    /\ UNCHANGED <<asteroidAmount, sunVars, planetVars, beltVars, G_scaled, simulationSpeed>>

SimSpeedSlider ==
    /\ PanelPass("speed")
    /\ \E v \in SpeedValues \ {simulationSpeed} : simulationSpeed' = v
    /\ KeepsStore
    /\ UNCHANGED <<asteroidAmount, sunVars, planetVars, beltVars, G_scaled, pauseSimulation>>

GScaledSlider ==
    /\ PanelPass("G")
    /\ \E v \in GValues \ {G_scaled} : G_scaled' = v
    /\ KeepsStore
    /\ UNCHANGED <<asteroidAmount, sunVars, planetVars, beltVars, simulationSpeed, pauseSimulation>>

\* mutant: the patch writes the mass and leaves the scale
PatchSunMassOnly(bodies, m, rScale) ==
    IF Len(bodies) > 0
    THEN [bodies EXCEPT ![1] = [@ EXCEPT !.mass = m]]
    ELSE bodies

\* if (sunChanged && !celestialBodies.empty()): the patch of body 0
PatchSun(bodies, m, rScale) ==
    IF Len(bodies) > 0
    THEN [bodies EXCEPT ![1] = [@ EXCEPT !.mass = m, !.radiusScale = rScale]]
    ELSE bodies

SunMassSlider ==
    /\ PanelPass("sunMass")
    /\ \E v \in SunMassValues \ {sunMass} : sunMass' = v
    /\ celestialBodies' = PatchSun(celestialBodies, sunMass', sunRadiusScale)
    /\ rebuilt' = FALSE
    /\ UNCHANGED <<bufferVars, glVars, sunAtRebuild, seedUsed>>
    /\ UNCHANGED <<asteroidAmount, sunRadiusScale, planetVars, beltVars, controlVars>>

SunRadiusScaleSlider ==
    /\ PanelPass("sunRadiusScale")
    /\ \E v \in SunScaleValues \ {sunRadiusScale} : sunRadiusScale' = v
    /\ celestialBodies' = PatchSun(celestialBodies, sunMass, sunRadiusScale')
    /\ rebuilt' = FALSE
    /\ UNCHANGED <<bufferVars, glVars, sunAtRebuild, seedUsed>>
    /\ UNCHANGED <<asteroidAmount, sunMass, planetVars, beltVars, controlVars>>

\* mutant: the planet's mass and scale are patched onto body 1 as the sun's are
PlanetSlidersPatching ==
    /\ PanelPass("planet")
    /\ \/ /\ \E v \in PlanetMassValues \ {planetMass} : planetMass' = v
          /\ UNCHANGED <<planetRadiusScale, planetOrbitRadius, planetInitialAngle>>
       \/ /\ \E v \in PlanetScaleValues \ {planetRadiusScale} : planetRadiusScale' = v
          /\ UNCHANGED <<planetMass, planetOrbitRadius, planetInitialAngle>>
       \/ /\ \E v \in OrbitRadiusValues \ {planetOrbitRadius} : planetOrbitRadius' = v
          /\ UNCHANGED <<planetMass, planetRadiusScale, planetInitialAngle>>
       \/ /\ \E v \in InitialAngleValues \ {planetInitialAngle} : planetInitialAngle' = v
          /\ UNCHANGED <<planetMass, planetRadiusScale, planetOrbitRadius>>
    /\ celestialBodies' =
          [celestialBodies EXCEPT ![2] = [@ EXCEPT !.mass = planetMass',
                                                   !.radiusScale = planetRadiusScale']]
    /\ rebuilt' = FALSE
    /\ UNCHANGED <<bufferVars, glVars, sunAtRebuild, seedUsed>>
    /\ UNCHANGED <<asteroidAmount, sunVars, beltVars, controlVars>>

PlanetSliders ==
    /\ PanelPass("planet")
    /\ \/ /\ \E v \in PlanetMassValues \ {planetMass} : planetMass' = v
          /\ UNCHANGED <<planetRadiusScale, planetOrbitRadius, planetInitialAngle>>
       \/ /\ \E v \in PlanetScaleValues \ {planetRadiusScale} : planetRadiusScale' = v
          /\ UNCHANGED <<planetMass, planetOrbitRadius, planetInitialAngle>>
       \/ /\ \E v \in OrbitRadiusValues \ {planetOrbitRadius} : planetOrbitRadius' = v
          /\ UNCHANGED <<planetMass, planetRadiusScale, planetInitialAngle>>
       \/ /\ \E v \in InitialAngleValues \ {planetInitialAngle} : planetInitialAngle' = v
          /\ UNCHANGED <<planetMass, planetRadiusScale, planetOrbitRadius>>
    /\ KeepsStore
    /\ UNCHANGED <<asteroidAmount, sunVars, beltVars, controlVars>>

\* mutant: the count changes and resetSimulation() is not called
AsteroidCountSliderWithoutReset ==
    /\ PanelPass("asteroidCount")
    /\ \E n \in AsteroidCounts \ {asteroidAmount} : asteroidAmount' = n
    /\ KeepsStore
    /\ UNCHANGED <<sunVars, planetVars, beltVars, controlVars>>

\* if (asteroidAmountChanged) resetSimulation();
AsteroidCountSlider ==
    /\ PanelPass("asteroidCount")
    /\ \E n \in AsteroidCounts \ {asteroidAmount} : asteroidAmount' = n
    /\ \E seed \in SeedValues : ResetSimulation(asteroidAmount', seed)
    /\ rebuilt' = TRUE
    /\ UNCHANGED <<sunVars, planetVars, beltVars, controlVars>>

AsteroidSliders ==
    /\ PanelPass("asteroids")
    /\ \/ /\ \E v \in AsteroidMassValues \ {avgAsteroidMass} : avgAsteroidMass' = v
          /\ UNCHANGED <<minAsteroidScale, maxAsteroidScale, asteroidBeltInnerRadius,
                         asteroidBeltOuterRadius, asteroidBeltHeight>>
       \/ /\ \E v \in MinScaleValues \ {minAsteroidScale} : minAsteroidScale' = v
          /\ UNCHANGED <<avgAsteroidMass, maxAsteroidScale, asteroidBeltInnerRadius,
                         asteroidBeltOuterRadius, asteroidBeltHeight>>
       \/ /\ \E v \in MaxScaleValues \ {maxAsteroidScale} : maxAsteroidScale' = v
          /\ UNCHANGED <<avgAsteroidMass, minAsteroidScale, asteroidBeltInnerRadius,
                         asteroidBeltOuterRadius, asteroidBeltHeight>>
       \/ /\ \E v \in InnerRadiusValues \ {asteroidBeltInnerRadius} :
                 asteroidBeltInnerRadius' = v
          /\ UNCHANGED <<avgAsteroidMass, minAsteroidScale, maxAsteroidScale,
                         asteroidBeltOuterRadius, asteroidBeltHeight>>
       \/ /\ \E v \in OuterRadiusValues \ {asteroidBeltOuterRadius} :
                 asteroidBeltOuterRadius' = v
          /\ UNCHANGED <<avgAsteroidMass, minAsteroidScale, maxAsteroidScale,
                         asteroidBeltInnerRadius, asteroidBeltHeight>>
       \/ /\ \E v \in BeltHeightValues \ {asteroidBeltHeight} : asteroidBeltHeight' = v
          /\ UNCHANGED <<avgAsteroidMass, minAsteroidScale, maxAsteroidScale,
                         asteroidBeltInnerRadius, asteroidBeltOuterRadius>>
    /\ KeepsStore
    /\ UNCHANGED <<asteroidAmount, sunVars, planetVars, controlVars>>

\* if (ImGui::Button("Reset Simulation Full")) resetSimulation();
ResetButton ==
    /\ PanelPass("reset")
    /\ \E seed \in SeedValues : ResetSimulation(asteroidAmount, seed)
    /\ rebuilt' = TRUE
    /\ UNCHANGED configVars

(***************************************************************************)
(* main(): if (!celestialBodies.empty()) updatePhysics(deltaTime)          *)
(***************************************************************************)
frameVars == <<deltaTime, frame, uiEvent, rebuilt, drawn, predicted>>

\* the call returns at one of its first two returns (or is not made)
StepNoop ==
    /\ pc = "step"
    /\ Len(celestialBodies) = 0 \/ StepIsNoop
    /\ stepped' = "noop"
    /\ pc' = "render"
    /\ UNCHANGED <<storeVars, configVars, frameVars, uploaded>>

\* the force-accumulation loops
StepForces ==
    /\ pc = "step"
    /\ Len(celestialBodies) > 0 /\ ~StepIsNoop
    /\ celestialBodies' = AccumulateForces(celestialBodies)
    /\ pc' = "integrate"
    /\ UNCHANGED <<bufferVars, glVars, sunAtRebuild, seedUsed, configVars, frameVars,
                   uploaded, stepped>>

\* the integrate-and-publish loop and the upload
StepIntegrate ==
    /\ pc = "integrate"
    /\ LET bodies == IntegrateAll(celestialBodies, EffectiveDt)
           models == PublishLoop(bodies, 1, 0, asteroidModelMatrices, FALSE)
           normals == PublishLoop(bodies, 1, 0, asteroidNormalMatrices, TRUE)
           asteroidInstanceIdx == models.idx
       IN  /\ celestialBodies' = bodies
           /\ asteroidModelMatrices' = models.array
           /\ asteroidNormalMatrices' = normals.array
           /\ IF Uploads(asteroidInstanceIdx)
              THEN /\ glInstanceData' =
                          BufferSubData(glInstanceData, asteroidInstanceIdx, models.array)
                   /\ glNormalData' =
                          BufferSubData(glNormalData, asteroidInstanceIdx, normals.array)
                   /\ uploaded' = asteroidInstanceIdx
              ELSE UNCHANGED <<glInstanceData, glNormalData, uploaded>>
    /\ stepped' = "full"
    /\ pc' = "render"
    /\ UNCHANGED <<asteroidInstanceVBO, asteroidNormalInstanceVBO, sunAtRebuild,
                   seedUsed, configVars, frameVars>>

(***************************************************************************)
(* main(): the draw calls.  The sun and the planet are drawn with their    *)
(* modelMatrix; glDrawElementsInstanced reads asteroidAmount entries of    *)
(* the two instance buffers.                                               *)
(***************************************************************************)
DrawsAsteroids == asteroidAmount > 0 /\ rockModelPtr /\ asteroidInstanceVBO # 0

FirstEntries(data, count) == [k \in 1..count |-> data[k]]

\* mutant: the draw calls are also made between the two loops of the step
RenderEarly ==
    /\ pc \in {"integrate", "render"}
    /\ drawn' =
          IF Len(celestialBodies) = 0 THEN NothingDrawn
          ELSE [sun |-> celestialBodies[1].modelMatrix,
                planet |-> IF Len(celestialBodies) > 1 /\ planetModelPtr
                           THEN celestialBodies[2].modelMatrix ELSE Unwritten,
                instances |-> IF DrawsAsteroids
                              THEN FirstEntries(glInstanceData, asteroidAmount) ELSE <<>>,
                normals |-> IF DrawsAsteroids
                            THEN FirstEntries(glNormalData, asteroidAmount) ELSE <<>>]
    /\ pc' = IF pc = "render" THEN "ui" ELSE pc
    /\ predicted' = IF pc = "render" THEN <<>> ELSE predicted
    /\ UNCHANGED <<storeVars, configVars, deltaTime, frame, uiEvent, rebuilt,
                   uploaded, stepped>>

Render ==
    /\ pc = "render"
    /\ drawn' =
          IF Len(celestialBodies) = 0 THEN NothingDrawn
          ELSE [sun |-> celestialBodies[1].modelMatrix,
                planet |-> IF Len(celestialBodies) > 1 /\ planetModelPtr
                           THEN celestialBodies[2].modelMatrix ELSE Unwritten,
                instances |-> IF DrawsAsteroids
                              THEN FirstEntries(glInstanceData, asteroidAmount) ELSE <<>>,
                normals |-> IF DrawsAsteroids
                            THEN FirstEntries(glNormalData, asteroidAmount) ELSE <<>>]
    /\ pc' = "ui"
    /\ predicted' = <<>>
    /\ UNCHANGED <<storeVars, configVars, deltaTime, frame, uiEvent, rebuilt,
                   uploaded, stepped>>

Next ==
    \/ NoChange
    \/ PauseCheckbox
    \/ SimSpeedSlider
    \/ GScaledSlider
    \/ SunMassSlider
    \/ SunRadiusScaleSlider
    \/ PlanetSliders
    \/ AsteroidCountSlider
    \/ AsteroidSliders
    \/ ResetButton
    \/ StepNoop
    \/ StepForces
    \/ StepIntegrate
    \/ Render

Spec == Init /\ [][Next]_vars

(***************************************************************************)
(* CelestialBody::update(dt) on its own: one body with any fields, the     *)
(* isStatic flag included, and one call of update with any dt.  The body   *)
(* is the only element of celestialBodies; deltaTime is the argument.      *)
(***************************************************************************)
UpdatePositions == {Zero3, <<20, 0, -5>>}

UpdateVelocities == {Zero3, <<0, -3, 14>>}

UpdateAccelerations == {Zero3, <<-10, 0, 3>>}

UpdateScales == {10, 20}

UpdateDts == {-10, 0, 10, 20}

\* a body as the constructor leaves it, then its acceleration and radiusScale
\* written as applyForce and the panel's patch write them
UpdateInit ==
    /\ asteroidAmount = 0
    /\ sunMass = 80
    /\ sunRadiusScale = 20
    /\ planetMass = 20
    /\ planetRadiusScale = 10
    /\ planetOrbitRadius = 20
    /\ planetInitialAngle = 0
    /\ avgAsteroidMass = 10
    /\ minAsteroidScale = 10
    /\ maxAsteroidScale = 20
    /\ asteroidBeltInnerRadius = 30
    /\ asteroidBeltOuterRadius = 50
    /\ asteroidBeltHeight = 10
    /\ G_scaled = 5
    /\ simulationSpeed = 10
    /\ pauseSimulation = FALSE
    /\ \E dt \in UpdateDts : deltaTime = dt
    /\ \E pos \in UpdatePositions, vel \in UpdateVelocities,
          acc \in UpdateAccelerations, built \in UpdateScales,
          rScale \in UpdateScales, stat \in BOOLEAN :
          celestialBodies =
              << [CelestialBody(pos, vel, sunMass, built, QuatIdentity, stat, FALSE, 0)
                     EXCEPT !.acceleration = acc, !.radiusScale = rScale] >>
    /\ asteroidModelMatrices = NewArray(0)
    /\ asteroidNormalMatrices = NewArray(0)
    /\ asteroidInstanceVBO = 0
    /\ asteroidNormalInstanceVBO = 0
    /\ glInstanceData = <<>>
    /\ glNormalData = <<>>
    /\ sunAtRebuild = [position |-> Zero3, velocity |-> Zero3]
    /\ seedUsed = 0
    /\ pc = "call"
    /\ frame = 0
    /\ uiEvent = "none"
    /\ rebuilt = FALSE
    /\ uploaded = -1
    /\ stepped = "none"
    /\ drawn = NothingDrawn
    /\ predicted = Motion(celestialBodies)

\* celestialBodies[0].update(deltaTime)
CallUpdate ==
    /\ pc = "call"
    /\ celestialBodies' = <<Update(celestialBodies[1], deltaTime)>>
    /\ pc' = "returned"
    /\ UNCHANGED <<bufferVars, glVars, sunAtRebuild, seedUsed, configVars, frameVars,
                   uploaded, stepped>>

UpdateNext == CallUpdate

UpdateSpec == UpdateInit /\ [][UpdateNext]_vars

(***************************************************************************)
(* Properties                                                              *)
(***************************************************************************)
\* main() is inside updatePhysics, or about to call it
InStep == pc \in {"step", "integrate"}

Bodies == 1..Len(celestialBodies)

SwarmBodies == {i \in Bodies : celestialBodies[i].isAsteroid}

\* C1: after any rebuild, body 0 (the sun) keeps the position and the velocity
\* it had right after the rebuild, whatever steps run.
C1_SunNeverMoves ==
    Len(celestialBodies) > 0 =>
        /\ celestialBodies[1].position = sunAtRebuild.position
        /\ celestialBodies[1].velocity = sunAtRebuild.velocity

\* C2: while pauseSimulation is set, no part of a call of updatePhysics changes
\* any body's position, velocity or modelMatrix, writes the instance arrays or
\* uploads to the GL buffers.
C2_PausedStepChangesNothing ==
    [][(InStep /\ pauseSimulation) =>
          /\ Len(celestialBodies') = Len(celestialBodies)
          /\ \A i \in Bodies :
                /\ celestialBodies'[i].position = celestialBodies[i].position
                /\ celestialBodies'[i].velocity = celestialBodies[i].velocity
                /\ celestialBodies'[i].modelMatrix = celestialBodies[i].modelMatrix
          /\ UNCHANGED <<bufferVars, glVars>>
          /\ uploaded' = -1]_vars

C2_Witness ==
    /\ pc = "render"
    /\ stepped = "noop"
    /\ pauseSimulation
    /\ EffectiveDt > 0
    /\ asteroidAmount > 0

\* C3: when not paused and dt * simulationSpeed is zero, a call of updatePhysics
\* leaves the whole body list and both instance arrays as they were and uploads
\* nothing.
C3_ZeroDtStepChangesNothing ==
    [][(InStep /\ ~pauseSimulation /\ EffectiveDt = 0) =>
          /\ celestialBodies' = celestialBodies
          /\ UNCHANGED <<bufferVars, glVars>>
          /\ uploaded' = -1]_vars

C3_Witness ==
    /\ pc = "render"
    /\ stepped = "noop"
    /\ ~pauseSimulation
    /\ simulationSpeed = 0
    /\ deltaTime > 0
    /\ G_scaled > 0

\* the body list with body k moved to `position` and given `mass`
Displaced(bodies, k, position, mass) ==
    [bodies EXCEPT ![k] = [@ EXCEPT !.position = position, !.mass = mass]]

\* C4: a swarm body's accumulated acceleration, and so its motion in a step, is
\* the same wherever any other swarm body is and whatever that body's mass.
C4_SwarmBodiesIgnoreEachOther ==
    (pc = "step" /\ Len(celestialBodies) > 0 /\ ~StepIsNoop) =>
        \A i \in SwarmBodies :
            LET forces == InnerLoop(celestialBodies, i, 1, celestialBodies[i])
                result == Update(forces, EffectiveDt)
            IN  \A k \in SwarmBodies \ {i} :
                    \A offset \in {<<20, 0, 0>>, <<0, 0, -5>>} : \A mass \in {0, 1000} :
                        LET moved == Displaced(celestialBodies, k,
                                         VAdd(celestialBodies[i].position, offset), mass)
                            movedForces == InnerLoop(moved, i, 1, moved[i])
                        IN  /\ movedForces.acceleration = forces.acceleration
                            /\ Update(movedForces, EffectiveDt) = result

C4_Witness ==
    /\ pc = "integrate"
    /\ Cardinality(SwarmBodies) >= 2
    /\ \A i \in SwarmBodies : celestialBodies[i].acceleration # Zero3

\* C5: right after every rebuild the store holds exactly asteroidAmount + 2
\* bodies: the sun first, at the origin, at rest, with the configured mass and
\* scale, one planet, and asteroidAmount asteroids, all freshly made.
C5_RebuildMakesFreshStore ==
    (rebuilt /\ (pc = "step" \/ frame = 0)) =>
        /\ Len(celestialBodies) = asteroidAmount + 2
        /\ {i \in Bodies : celestialBodies[i].type = 0} = {1}
        /\ celestialBodies[1].position = Zero3
        /\ celestialBodies[1].velocity = Zero3
        /\ celestialBodies[1].mass = sunMass
        /\ celestialBodies[1].radiusScale = sunRadiusScale
        /\ Cardinality({i \in Bodies : celestialBodies[i].type = 1}) = 1
        /\ Cardinality({i \in Bodies : celestialBodies[i].type = 2}) = asteroidAmount
        /\ Cardinality(SwarmBodies) = asteroidAmount
        /\ \E seed \in SeedValues : celestialBodies = BodiesBuilt(asteroidAmount, seed)

C5_Witness ==
    /\ rebuilt
    /\ pc = "step"
    /\ frame = 2
    /\ asteroidAmount = 2
    /\ uiEvent = "reset"

\* a matrix that was written and has finite entries
ValidMatrix(m) == m # Unwritten /\ m # NaNMatrix

\* the index in the store of the k-th swarm body, k = 1, 2, ...
KthSwarm(k) ==
    CHOOSE i \in SwarmBodies : Cardinality({j \in SwarmBodies : j < i}) = k - 1

CurrentTransform(b) == ModelMatrixOf(b.position, b.orientation, b.radiusScale)

\* the arrays and the GL buffers hold exactly asteroidAmount valid pairs, pair
\* k made from the current state of the k-th swarm body
PublishedPairs ==
    IF asteroidAmount = 0
    THEN /\ asteroidModelMatrices = nullptr
         /\ asteroidNormalMatrices = nullptr
         /\ glInstanceData = <<>>
         /\ glNormalData = <<>>
    ELSE /\ Cardinality(SwarmBodies) = asteroidAmount
         /\ Len(asteroidModelMatrices) = asteroidAmount
         /\ Len(asteroidNormalMatrices) = asteroidAmount
         /\ Len(glInstanceData) = asteroidAmount
         /\ Len(glNormalData) = asteroidAmount
         /\ \A k \in 1..asteroidAmount :
               LET t == CurrentTransform(celestialBodies[KthSwarm(k)])
               IN  /\ ValidMatrix(t)
                   /\ ValidMatrix(NormalMatrixOf(t))
                   /\ asteroidModelMatrices[k] = t
                   /\ asteroidNormalMatrices[k] = NormalMatrixOf(t)
                   /\ glInstanceData[k] = t
                   /\ glNormalData[k] = NormalMatrixOf(t)

MassivePairs ==
    {p \in Bodies \X Bodies :
        /\ p[1] # p[2]
        /\ ~celestialBodies[p[1]].isAsteroid /\ ~celestialBodies[p[2]].isAsteroid
        /\ celestialBodies[p[1]].mass > 0 /\ celestialBodies[p[2]].mass > 0}

\* main() is about to run the force-accumulation loops
AtForcePhase == pc = "step" /\ Len(celestialBodies) > 0 /\ ~StepIsNoop

\* C7 as stated: the force computed on i from j is exactly the negation of the
\* force computed on j from i, for distinct non-swarm bodies of positive mass.
C7_ForcesExactlyOpposite ==
    AtForcePhase =>
        \A p \in MassivePairs :
            ForceVec(celestialBodies, p[1], p[2])
                = VNeg(ForceVec(celestialBodies, p[2], p[1]))

\* C7 as amended: the two directions are exactly opposite and the two softened
\* squared distances equal, also below the floor; the two forces are exactly
\* opposite whenever the products G*m_i*m_j and G*m_j*m_i, each rounded in its
\* own order, come out equal.
C7_ForcesOppositeUpToProductRounding ==
    AtForcePhase =>
        \A p \in MassivePairs :
            /\ RHat(celestialBodies, p[1], p[2]) = VNeg(RHat(celestialBodies, p[2], p[1]))
            /\ RMagSq(celestialBodies, p[1], p[2]) = RMagSq(celestialBodies, p[2], p[1])
            /\ MassProduct(celestialBodies, p[1], p[2]) = MassProduct(celestialBodies, p[2], p[1])
                  => ForceVec(celestialBodies, p[1], p[2])
                         = VNeg(ForceVec(celestialBodies, p[2], p[1]))

C7_Witness ==
    /\ AtForcePhase
    /\ \E p \in MassivePairs :
          /\ RVec(celestialBodies, p[1], p[2]) # Zero3
          /\ Dot(RVec(celestialBodies, p[1], p[2]), RVec(celestialBodies, p[1], p[2])) < EpsilonSq
          /\ ForceVec(celestialBodies, p[1], p[2]) # Zero3
          /\ ForceVec(celestialBodies, p[1], p[2]) = VNeg(ForceVec(celestialBodies, p[2], p[1]))

\* C8: when the renderer reads the bodies, every body's modelMatrix is the
\* transform of its current position, orientation and radiusScale.
C8_TransformNeverStale ==
    pc = "render" =>
        \A i \in Bodies :
            celestialBodies[i].modelMatrix = CurrentTransform(celestialBodies[i])

\* C9: the number of bodies changes only in a rebuild; a rebuild runs in a
\* frame's panel pass exactly when the reset button is pressed or the asteroid
\* count changes, so the store always has asteroidAmount + 2 bodies by the time
\* the step runs; nothing outside the panel pass changes the count.
C9_CountChangesOnlyInRebuild ==
    [][/\ Len(celestialBodies') # Len(celestialBodies) => (pc = "ui" /\ rebuilt')
       /\ pc = "ui" =>
             (rebuilt' <=> (uiEvent' = "reset" \/ asteroidAmount' # asteroidAmount))
       /\ pc # "ui" => (asteroidAmount' = asteroidAmount /\ rebuilt' = rebuilt)
       /\ Len(celestialBodies') = asteroidAmount' + 2]_vars

C9_Witness ==
    /\ pc = "step"
    /\ frame = 2
    /\ uiEvent = "asteroidCount"
    /\ rebuilt
    /\ asteroidAmount = 1
    /\ Len(celestialBodies) = 3

\* the sun, the planet, then the asteroids
InStoreOrder(bodies) ==
    /\ Len(bodies) >= 2
    /\ bodies[1].type = 0 /\ ~bodies[1].isAsteroid
    /\ bodies[2].type = 1 /\ ~bodies[2].isAsteroid
    /\ \A i \in 3..Len(bodies) : bodies[i].type = 2 /\ bodies[i].isAsteroid

\* C10: the store is always the sun, the planet, then the asteroids; a step
\* keeps every body at its index (same mass, scale, orientation and category),
\* and what it writes to slot k is the transform of the k-th asteroid, body k+2.
C10_StoreOrderStable ==
    [][/\ InStoreOrder(celestialBodies')
       /\ InStep =>
             /\ Len(celestialBodies') = Len(celestialBodies)
             /\ \A i \in Bodies :
                   /\ celestialBodies'[i].type = celestialBodies[i].type
                   /\ celestialBodies'[i].isAsteroid = celestialBodies[i].isAsteroid
                   /\ celestialBodies'[i].mass = celestialBodies[i].mass
                   /\ celestialBodies'[i].radiusScale = celestialBodies[i].radiusScale
                   /\ celestialBodies'[i].orientation = celestialBodies[i].orientation
       /\ (pc = "integrate") =>
             \A k \in 1..asteroidAmount :
                 /\ KthSwarm(k) = k + 2
                 /\ asteroidModelMatrices'[k] = celestialBodies'[k + 2].modelMatrix]_vars

C10_Witness ==
    /\ pc = "render"
    /\ stepped = "full"
    /\ frame = 2
    /\ asteroidAmount = 2
    /\ asteroidModelMatrices[2] = celestialBodies[4].modelMatrix
    /\ celestialBodies[3].mass # celestialBodies[4].mass

\* C11: a change of the sun's mass or scale in the panel writes sunMass and
\* sunRadiusScale onto body 0 without a rebuild and changes nothing else: the
\* body count, every other body, the sun's other fields, the instance arrays
\* and the GL buffers are as before the patch.
C11_SunPatchTouchesOnlySunMassAndScale ==
    [][(pc = "ui" /\ uiEvent' \in {"sunMass", "sunRadiusScale"}) =>
          /\ ~rebuilt'
          /\ Len(celestialBodies') = Len(celestialBodies)
          /\ celestialBodies'[1].mass = sunMass'
          /\ celestialBodies'[1].radiusScale = sunRadiusScale'
          /\ celestialBodies'[1] =
                 [celestialBodies[1] EXCEPT !.mass = sunMass',
                                            !.radiusScale = sunRadiusScale']
          /\ \A i \in Bodies \ {1} : celestialBodies'[i] = celestialBodies[i]
          /\ UNCHANGED <<bufferVars, glVars>>]_vars

C11_Witness ==
    /\ pc = "step"
    /\ frame = 2
    /\ uiEvent = "sunRadiusScale"
    /\ asteroidAmount = 2
    /\ sunRadiusScale = 30
    /\ celestialBodies[1].radiusScale = 30
    /\ celestialBodies[1].modelMatrix.lin[1][1] = 20
    /\ celestialBodies[2].position # Vec3(20, 0, 0)

\* the panel passes that change a parameter only initializeCelestialBodies reads
RebuildOnlyEvents == {"planet", "asteroids"}

\* a pass of one of `events` changes no body, array or buffer, and the step of
\* its frame leaves the bodies where the step would have left them without the
\* change
WaitsForRebuild(events) ==
    /\ (pc = "ui" /\ uiEvent' \in events) =>
           (~rebuilt' /\ UNCHANGED <<bodyVars, bufferVars, glVars>>)
    /\ (pc' = "render" /\ uiEvent' \in events) => Motion(celestialBodies') = predicted'

\* C12 as stated: a change of a planet parameter, an asteroid parameter or the
\* gravitational constant changes no existing body, and every step until the
\* next rebuild gives what it would have given without the change.
C12_ConfigChangeWaitsForRebuild ==
    [][WaitsForRebuild(RebuildOnlyEvents \cup {"G"})]_vars

\* C12 as amended: that holds of the planet and the asteroid parameters; a
\* change of the gravitational constant changes no existing body when it is
\* made, and the steps from the same frame on compute their forces with it.
\* (A frame whose panel changes nothing steps to the predicted bodies.)
C12_ConfigChangeExceptGWaitsForRebuild ==
    [][/\ WaitsForRebuild(RebuildOnlyEvents \cup {"none"})
       /\ (pc = "ui" /\ uiEvent' = "G") =>
              (~rebuilt' /\ UNCHANGED <<bodyVars, bufferVars, glVars>>)
       /\ (pc = "step" /\ uiEvent = "G" /\ ~StepIsNoop) =>
              celestialBodies' = AccumulateForces(celestialBodies)]_vars

C12_Witness ==
    /\ pc = "render"
    /\ uiEvent = "planet"
    /\ stepped = "full"
    /\ ~rebuilt
    /\ asteroidAmount > 0
    /\ planetMass # celestialBodies[2].mass
    /\ Motion(celestialBodies) = predicted
    /\ celestialBodies[2].position # Vec3(20, 0, 0)

\* the step of this frame has run to its end, over every body and every slot
StepComplete ==
    /\ stepped \in {"noop", "full"}
    /\ \A i \in Bodies : celestialBodies[i].acceleration = Zero3
    /\ stepped = "full" =>
          /\ \A i \in Bodies :
                celestialBodies[i].modelMatrix = CurrentTransform(celestialBodies[i])
          /\ \A k \in 1..asteroidAmount :
                /\ asteroidModelMatrices[k] = celestialBodies[KthSwarm(k)].modelMatrix
                /\ glInstanceData[k] = asteroidModelMatrices[k]
                /\ glNormalData[k] = asteroidNormalMatrices[k]

\* C13: in every frame updatePhysics runs at most once, and the draw calls are
\* made only after it has returned: they read the bodies and the instance
\* buffers of a step that is complete, never of one that is under way.
C13_StepCompleteBeforeRender ==
    [][/\ InStep => (stepped = "none" /\ drawn' = drawn)
       /\ stepped' # stepped => (stepped = "none" \/ pc = "ui")
       /\ drawn' # drawn => (pc = "render" \/ (pc = "ui" /\ drawn' = NothingDrawn))
       /\ pc = "render" =>
             /\ StepComplete
             /\ UNCHANGED <<storeVars, stepped>>
             /\ drawn'.sun = celestialBodies[1].modelMatrix
             /\ drawn'.planet = celestialBodies[2].modelMatrix
             /\ asteroidAmount > 0 =>
                    /\ drawn'.instances = glInstanceData
                    /\ drawn'.normals = glNormalData]_vars

C13_Witness ==
    /\ pc = "ui"
    /\ frame = 2
    /\ stepped = "full"
    /\ uploaded = 2
    /\ asteroidAmount = 2
    /\ drawn # NothingDrawn
    /\ drawn.instances = <<celestialBodies[3].modelMatrix, celestialBodies[4].modelMatrix>>
    /\ drawn.planet.trans # Vec3(20, 0, 0)

\* the fields of the bodies that only the panel and a rebuild write
PanelFields(bodies) ==
    [i \in 1..Len(bodies) |->
        <<bodies[i].mass, bodies[i].radiusScale, bodies[i].orientation,
          bodies[i].isStatic, bodies[i].isAsteroid, bodies[i].type>>]

\* C14: every change of configuration (pause flag, speed, G, the sun patch, a
\* rebuild) is made in the panel pass, before the frame's step starts; the
\* step decides at its start, from the pause flag and dt * simulationSpeed of
\* that moment, whether it is a no-op; from there to the end of the draw calls
\* no configuration value changes and the body list is neither rebuilt nor
\* patched.
C14_ConfigChangesOnlyBeforeStep ==
    [][/\ (configVars' # configVars \/ deltaTime' # deltaTime \/ rebuilt' # rebuilt
              \/ PanelFields(celestialBodies') # PanelFields(celestialBodies))
             => (pc = "ui" /\ pc' = "step")
       /\ pc # "ui" =>
             /\ UNCHANGED <<configVars, deltaTime, rebuilt, uiEvent>>
             /\ PanelFields(celestialBodies') = PanelFields(celestialBodies)
       /\ pc = "step" =>
             /\ pc' = "render" <=> (pauseSimulation \/ FMul(deltaTime, simulationSpeed) = 0)
             /\ pc' = "render" => (stepped' = "noop" /\ UNCHANGED storeVars)
       /\ pc = "render" => UNCHANGED storeVars]_vars

C14_Witness ==
    /\ pc = "ui"
    /\ frame = 2
    /\ uiEvent = "pause"
    /\ pauseSimulation
    /\ stepped = "noop"
    /\ deltaTime > 0
    /\ simulationSpeed = 20
    /\ drawn # NothingDrawn

\* C15: the body list a rebuild leaves is a function of the configuration and
\* of the seed alone: it is the list initializeCelestialBodies makes from them
\* starting with an empty store, whatever the store held before the rebuild.
C15_RebuildIsFunctionOfConfigAndSeed ==
    (rebuilt /\ pc = "step") => celestialBodies = BodiesBuilt(asteroidAmount, seedUsed)

C15_Witness ==
    /\ rebuilt
    /\ pc = "step"
    /\ frame = 2
    /\ uiEvent = "asteroidCount"
    /\ asteroidAmount = 1
    /\ seedUsed = 1
    /\ Len(predicted) = 4
    /\ BodiesBuilt(1, 0) # BodiesBuilt(1, 1)

\* a rebuild has just run with a positive orbit radius and a positive sun mass
FreshOrbiter ==
    /\ rebuilt
    /\ pc = "step"
    /\ planetOrbitRadius > 0
    /\ sunMass > 0

\* sqrt(G * M / R)
CircularSpeed == FSqrt(FDiv(FMul(G_scaled, sunMass), planetOrbitRadius))

\* what the roundings of the products of two vectors of these sizes add up to
RoundingSlack(a, b) == (2 * (Abs(a) + Abs(b))) \div Unit + 2

\* C16 as stated: a freshly rebuilt planet is at distance R from the origin at
\* the configured angle, its speed is sqrt(G*M/R), and its velocity and its
\* position have dot product zero, for every initial angle.  (Distance and
\* speed are compared by their squares.)
C16_OrbiterOnCircularOrbit ==
    FreshOrbiter =>
        LET position == celestialBodies[2].position
            velocity == celestialBodies[2].velocity
        IN  /\ Dot(position, position) = FMul(planetOrbitRadius, planetOrbitRadius)
            /\ Dot(velocity, velocity) = FMul(CircularSpeed, CircularSpeed)
            /\ Dot(position, velocity) = 0

\* C16 as amended: the position is (R cos a, 0, R sin a) and the velocity has
\* no vertical part; the squared distance, the squared speed and the dot
\* product are R^2, G*M/R and 0 up to the rounding of the products; at angle
\* 0 the position is (R, 0, 0), the velocity (0, 0, sqrt(G*M/R)) and the dot
\* product exactly zero.
C16_OrbiterOnCircularOrbitUpToRounding ==
    FreshOrbiter =>
        LET position == celestialBodies[2].position
            velocity == celestialBodies[2].velocity
            slack == RoundingSlack(planetOrbitRadius, CircularSpeed)
        IN  /\ position = Vec3(FMul(planetOrbitRadius, CosDeg(planetInitialAngle)), 0,
                                FMul(planetOrbitRadius, SinDeg(planetInitialAngle)))
            /\ velocity[2] = 0
            /\ Abs(Dot(position, position) - FMul(planetOrbitRadius, planetOrbitRadius))
                  <= slack
            /\ Abs(Dot(velocity, velocity) - FMul(CircularSpeed, CircularSpeed)) <= slack
            /\ Abs(Dot(position, velocity)) <= slack
            /\ planetInitialAngle = 0 =>
                  /\ position = Vec3(planetOrbitRadius, 0, 0)
                  /\ velocity = Vec3(0, 0, CircularSpeed)
                  /\ Dot(position, velocity) = 0

C16_Witness ==
    /\ FreshOrbiter
    /\ frame > 0
    /\ planetInitialAngle = 53
    /\ CircularSpeed > 0
    /\ Dot(celestialBodies[2].position, celestialBodies[2].velocity) # 0

\* the radius drawn for the k-th asteroid (from 0) in the last rebuild
SampledRadius(k) ==
    Uniform(asteroidBeltInnerRadius, asteroidBeltOuterRadius,
            RngAt(seedUsed, DrawsPerAsteroid * k))

\* C17: a rebuild with sunMass zero or planetOrbitRadius zero gives the planet
\* the velocity zero, and gives every asteroid whose sampled radius is zero, or
\* every asteroid when sunMass is zero, the velocity zero (the perturbation of
\* a zero speed is zero); every initial velocity is a vector of finite numbers.
C17_ZeroMassOrRadiusGivesZeroSpeed ==
    (rebuilt /\ pc = "step") =>
        /\ (sunMass = 0 \/ planetOrbitRadius = 0) => celestialBodies[2].velocity = Zero3
        /\ \A k \in 0..(asteroidAmount - 1) :
              (sunMass = 0 \/ SampledRadius(k) = 0) =>
                  celestialBodies[k + 3].velocity = Zero3
        /\ \A i \in Bodies : \A c \in 1..3 :
              /\ celestialBodies[i].velocity[c] \in Int
              /\ Abs(celestialBodies[i].velocity[c]) < 46340

C17_Witness ==
    /\ rebuilt
    /\ pc = "step"
    /\ asteroidAmount = 2
    /\ sunMass > 0
    /\ G_scaled > 0
    /\ SampledRadius(0) = 0
    /\ SampledRadius(1) > 0
    /\ celestialBodies[3].velocity = Zero3
    /\ celestialBodies[4].velocity # Zero3

\* C18: the second loop of a step that is not a no-op writes the swarm bodies
\* in store order to the slots 0, 1, ...: afterwards slot k of the mat4 array
\* is the transform of the k-th swarm body as integrated by this step, slot k
\* of the mat3 array its normal matrix, for every k below the swarm count; the
\* slots written are as many as the swarm bodies, none is left for another.
C18_SlotsFollowStoreOrder ==
    [][pc = "integrate" =>
          LET n == Cardinality(SwarmBodies)
              integrated == IntegrateAll(celestialBodies, EffectiveDt)
          IN  /\ n = asteroidAmount
              /\ n > 0 => (Len(asteroidModelMatrices') = n /\ uploaded' = n)
              /\ n = 0 => (asteroidModelMatrices' = nullptr /\ uploaded' = -1)
              /\ \A k \in 1..n :
                    LET i == KthSwarm(k)
                    IN  /\ celestialBodies'[i] = integrated[i]
                        /\ asteroidModelMatrices'[k] = CurrentTransform(integrated[i])
                        /\ asteroidNormalMatrices'[k]
                              = NormalMatrixOf(CurrentTransform(integrated[i]))
                        /\ \A l \in 1..(k - 1) : KthSwarm(l) < i]_vars

C18_Witness ==
    /\ pc = "render"
    /\ stepped = "full"
    /\ asteroidAmount = 2
    /\ asteroidModelMatrices[1] # asteroidModelMatrices[2]
    /\ asteroidModelMatrices[1].trans = celestialBodies[3].position
    /\ asteroidModelMatrices[2].trans = celestialBodies[4].position
    /\ celestialBodies[3].position # Asteroid(seedUsed, 0).position
    /\ celestialBodies[4].position # Asteroid(seedUsed, 1).position

\* the number of swarm bodies the second loop writes: those of the store, as
\* far as the arrays have room
SwarmWritten ==
    IF Cardinality(SwarmBodies) < asteroidAmount
    THEN Cardinality(SwarmBodies) ELSE asteroidAmount

\* C19: a step uploads only if its second loop wrote at least one swarm body,
\* and then sends the first W entries of each array to the start of its
\* buffer, W being the number of swarm bodies written: entries from W on are
\* left alone; outside that upload and a rebuild the buffers do not change.
C19_UploadCoversWhatWasWritten ==
    [][/\ pc = "integrate" =>
             /\ uploaded' \in {-1, SwarmWritten}
             /\ uploaded' # -1 =>
                    /\ SwarmWritten > 0
                    /\ uploaded' <= Len(glInstanceData)
                    /\ \A k \in 1..Len(glInstanceData) :
                          IF k <= SwarmWritten
                          THEN /\ glInstanceData'[k] = asteroidModelMatrices'[k]
                               /\ glNormalData'[k] = asteroidNormalMatrices'[k]
                          ELSE /\ glInstanceData'[k] = glInstanceData[k]
                               /\ glNormalData'[k] = glNormalData[k]
             /\ uploaded' = -1 => UNCHANGED <<glInstanceData, glNormalData>>
       /\ pc \in {"step", "render"} =>
             UNCHANGED <<glInstanceData, glNormalData, uploaded>>
       /\ pc = "ui" => uploaded' = -1]_vars

C19_Witness ==
    /\ pc = "render"
    /\ frame = 2
    /\ ~rebuilt
    /\ uploaded = 2
    /\ asteroidAmount = 2
    /\ glInstanceData = asteroidModelMatrices
    /\ glNormalData = asteroidNormalMatrices
    /\ glInstanceData[1].trans # Asteroid(seedUsed, 0).position

\* C20: in the force loops a body that is static, or whose mass is zero or
\* negative, accumulates no acceleration, and every other body accumulates
\* the pulls of all the bodies it is paired with, those bodies included.
C20_NoAccelerationWithoutPositiveMass ==
    [][(pc = "step" /\ pc' = "integrate") =>
          \A i \in Bodies :
              IF celestialBodies[i].isStatic \/ celestialBodies[i].mass <= 0
              THEN celestialBodies'[i].acceleration = Zero3
              ELSE celestialBodies'[i].acceleration
                       = InnerLoop(celestialBodies, i, 1, celestialBodies[i]).acceleration]_vars


\* C21: update(dt) of a body whose isStatic flag is set, for every dt: the
\* acceleration is reset to zero, position and velocity are left as they
\* were, and the transform is recomputed from the current position,
\* orientation and radiusScale.
C21_StaticUpdateKeepsMotionAndRecomputesTransform ==
    [][(pc = "call" /\ celestialBodies[1].isStatic) =>
          /\ celestialBodies'[1].acceleration = Zero3
          /\ celestialBodies'[1].position = celestialBodies[1].position
          /\ celestialBodies'[1].velocity = celestialBodies[1].velocity
          /\ celestialBodies'[1].modelMatrix =
                 ModelMatrixOf(celestialBodies[1].position, celestialBodies[1].orientation,
                               celestialBodies[1].radiusScale)
          /\ celestialBodies'[1].modelMatrix.lin[1][1] = celestialBodies[1].radiusScale
          /\ celestialBodies'[1].modelMatrix.trans = celestialBodies[1].position]_vars

\* update returned for a static body that has velocity, is away from the
\* origin and was called with dt # 0
C21_Witness ==
    /\ pc = "returned"
    /\ celestialBodies[1].isStatic
    /\ deltaTime = 20
    /\ celestialBodies[1].velocity = <<0, -3, 14>>
    /\ celestialBodies[1].position = <<20, 0, -5>>
    /\ celestialBodies[1].acceleration = Zero3
    /\ celestialBodies[1].radiusScale = 20
    /\ celestialBodies[1].modelMatrix.lin[1][1] = 20

\* C22: the integration of every non-static body is semi-implicit Euler: the
\* new velocity is v + a * dt_eff with a the acceleration the force loops of
\* this step accumulated and dt_eff = dt * simulationSpeed, the new position
\* is p + (new velocity) * dt_eff, the acceleration is then zero and the
\* transform is that of the new position, the orientation and the radiusScale.
C22_SemiImplicitEuler ==
    [][pc = "integrate" =>
          \A i \in Bodies :
              ~celestialBodies[i].isStatic =>
                  LET b == celestialBodies[i]
                      after == celestialBodies'[i]
                      dt_eff == FMul(deltaTime, simulationSpeed)
                  IN  /\ b.acceleration = InnerLoop(celestialBodies, i, 1,
                                              [b EXCEPT !.acceleration = Zero3]).acceleration
                      /\ after.velocity = VAdd(b.velocity, VScale(b.acceleration, dt_eff))
                      /\ after.position = VAdd(b.position, VScale(after.velocity, dt_eff))
                      /\ after.acceleration = Zero3
                      /\ after.modelMatrix =
                            ModelMatrixOf(after.position, b.orientation, b.radiusScale)]_vars

\* the first frame, nothing changed in the panel: the planet has been moved,
\* and not to where its old velocity would have taken it
C22_Witness ==
    /\ pc = "render"
    /\ stepped = "full"
    /\ frame = 1
    /\ uiEvent = "none"
    /\ celestialBodies[2].velocity # Planet.velocity
    /\ celestialBodies[2].position # Planet.position
    /\ celestialBodies[2].position
          # VAdd(Planet.position, VScale(Planet.velocity, EffectiveDt))
    /\ celestialBodies[2].acceleration = Zero3

\* the ordered pairs (i, j) the inner loop computes a force for
ForcePairs ==
    {p \in Bodies \X Bodies : ~SkipsPair(celestialBodies, p[1], p[2])}

\* C23: in the force loops, for every pair the force formula is evaluated
\* for, at any separation, coincident positions included, the squared
\* distance it divides by is
\* max(r^2, epsilon_sq): it is never zero, and the magnitude of force_mag is
\* at most that of G * mass[i] * mass[j] / epsilon_sq.
C23_SquaredDistanceFloored ==
    [][(pc = "step" /\ pc' = "integrate") =>
          \A p \in ForcePairs :
              LET r_vec == VSub(celestialBodies[p[2]].position, celestialBodies[p[1]].position)
                  r_sq == Dot(r_vec, r_vec)
                  used == RMagSq(celestialBodies, p[1], p[2])
                  product == FMul(FMul(G_scaled, celestialBodies[p[1]].mass),
                                  celestialBodies[p[2]].mass)
              IN  /\ used = IF r_sq > EpsilonSq THEN r_sq ELSE EpsilonSq
                  /\ used > 0
                  /\ Abs(ForceMag(celestialBodies, p[1], p[2]))
                        <= (Abs(product) * Unit) \div EpsilonSq]_vars

\* the force loops are about to run with the planet exactly on the sun: the
\* force between the two is the bound itself
C23_Witness ==
    /\ AtForcePhase
    /\ celestialBodies[2].position = celestialBodies[1].position
    /\ ForceMag(celestialBodies, 2, 1) # 0
    /\ ForceMag(celestialBodies, 2, 1) = (MassProduct(celestialBodies, 2, 1) * Unit) \div EpsilonSq

\* the squared length of the direction r_hat applied for the pair (i, j)
RHatLengthSq(i, j) ==
    Dot(RHat(celestialBodies, i, j), RHat(celestialBodies, i, j))

\* C24: the direction applied to the force magnitude is the normalized
\* separation vector: of unit length (up to rounding) for every non-zero
\* separation, separations below the softening floor included, and the zero
\* vector exactly when the separation is zero.  The squared length may be off
\* by the rounding of the three squares, the square root and the division:
\* 4 units in the last place.
C24_DirectionIsUnitVector ==
    AtForcePhase =>
        \A p \in ForcePairs :
            LET r_vec == RVec(celestialBodies, p[1], p[2])
            IN  /\ r_vec # Zero3 =>
                      Abs(RHatLengthSq(p[1], p[2]) - One) <= 4
                /\ r_vec = Zero3 <=> RHat(celestialBodies, p[1], p[2]) = Zero3

\* G * mass[j] / max(r_ij^2, epsilon_sq) times the direction applied for the
\* pair (i, j): the pull of body j on body i, per unit of mass of body i
Pull(i, j) ==
    LET r_vec == VSub(celestialBodies[j].position, celestialBodies[i].position)
        r_sq == Dot(r_vec, r_vec)
        floored == IF r_sq > EpsilonSq THEN r_sq ELSE EpsilonSq
    IN  VScale(VDiv(r_vec, FSqrt(floored)),
               FDiv(FMul(G_scaled, celestialBodies[j].mass), floored))

\* whether body j pulls body i: another body, and not both in the swarm
Pulls(i, j) ==
    /\ j # i
    /\ ~(celestialBodies[i].isAsteroid /\ celestialBodies[j].isAsteroid)

\* the sum of the pulls on body i of the bodies from..size-1 that pull it
RECURSIVE PullSum(_, _)
PullSum(i, from) ==
    IF from > Len(celestialBodies) THEN Zero3
    ELSE VAdd(IF Pulls(i, from) THEN Pull(i, from) ELSE Zero3, PullSum(i, from + 1))

\* the bodies the claim is about
PulledBodies ==
    {i \in Bodies : ~celestialBodies[i].isStatic /\ celestialBodies[i].mass > 0}

RECURSIVE PullMagnitude(_, _, _)
PullMagnitude(i, c, from) ==
    IF from > Len(celestialBodies) THEN 0
    ELSE (IF Pulls(i, from) THEN Abs(Pull(i, from)[c]) ELSE 0) + PullMagnitude(i, c, from + 1)

\* what the roundings of G * m_i * m_j, of the division by r_mag_sq, of the
\* product with r_hat and of the division by m_i can add up to in component c
PullSlack(i, c) == PullMagnitude(i, c, 1) \div 4 + 3

C26_CapacitiesMatchCount ==
    pc \in {"step", "integrate", "render"} =>
        /\ Cardinality(SwarmBodies) = asteroidAmount
        /\ Len(asteroidModelMatrices) = asteroidAmount
        /\ Len(asteroidNormalMatrices) = asteroidAmount
        /\ Len(glInstanceData) = asteroidAmount
        /\ Len(glNormalData) = asteroidAmount
        /\ asteroidAmount = 0 =>
              /\ asteroidModelMatrices = nullptr
              /\ asteroidNormalMatrices = nullptr
              /\ asteroidInstanceVBO = 0
              /\ asteroidNormalInstanceVBO = 0
        /\ asteroidAmount > 0 =>
              /\ asteroidInstanceVBO # 0
              /\ asteroidNormalInstanceVBO # 0
        /\ LET published == PublishLoop(celestialBodies, 1, 0, asteroidModelMatrices, FALSE)
           IN  /\ published.idx = Cardinality(SwarmBodies)
               /\ \A k \in 1..published.idx :
                     /\ k - 1 < Len(asteroidModelMatrices)
                     /\ k - 1 < Len(asteroidNormalMatrices)

\* the second frame's rebuild changed the count to 1, and the step of that
\* frame published and uploaded the one instance
C26_Witness ==
    /\ pc = "render"
    /\ frame = 2
    /\ uiEvent = "asteroidCount"
    /\ rebuilt
    /\ asteroidAmount = 1
    /\ Len(celestialBodies) = 3
    /\ stepped = "full"
    /\ uploaded = 1

\* C27: whenever the draw calls read N instance slots, each of them has been
\* written by a step that ran after the last rebuild; a rebuild made while
\* the simulation is paused, or while the speed is 0, does not lead to a
\* frame that draws slots that were allocated and never written.
C27_DrawnSlotsWerePublished ==
    (pc = "ui" /\ drawn # NothingDrawn) =>
        /\ \A k \in 1..Len(drawn.instances) : drawn.instances[k] # Unwritten
        /\ \A k \in 1..Len(drawn.normals) : drawn.normals[k] # Unwritten

\* the store visited from its last body to its first
Reversed(bodies) == [i \in 1..Len(bodies) |-> bodies[Len(bodies) + 1 - i]]

\* what the two loops of updatePhysics make of a store
Stepped(bodies) == IntegrateAll(AccumulateForces(bodies), EffectiveDt)

C29_AccelerationZeroAtFrameBoundaries ==
    pc \in {"ui", "step", "render"} =>
        \A i \in Bodies : celestialBodies[i].acceleration = Zero3

\* a full step in the second frame, the panel untouched and no rebuild: the
\* pull of the sun has bent the planet's velocity, and its acceleration is zero
C29_Witness ==
    /\ pc = "render"
    /\ frame = 2
    /\ stepped = "full"
    /\ uiEvent = "none"
    /\ ~rebuilt
    /\ planetInitialAngle = 0
    /\ celestialBodies[2].velocity[1] < 0
    /\ celestialBodies[2].acceleration = Zero3
    /\ celestialBodies[1].velocity # Zero3

\* the fields of a body that are not its motion, its acceleration or its
\* transform
FixedFields(b) ==
    <<b.mass, b.radiusScale, b.orientation, b.isStatic, b.isAsteroid, b.type>>

\* C30: a step changes only position, velocity, acceleration and transform of
\* the bodies and the contents of the instance arrays and buffers: the number
\* of bodies, every body's mass, radiusScale, orientation, isStatic flag and
\* category, the capacities and names of the buffers and every configuration
\* parameter are after the step what they were before it.
C30_StepChangesOnlyMotionAndBuffers ==
    [][InStep =>
          /\ Len(celestialBodies') = Len(celestialBodies)
          /\ \A i \in Bodies : FixedFields(celestialBodies'[i]) = FixedFields(celestialBodies[i])
          /\ Len(asteroidModelMatrices') = Len(asteroidModelMatrices)
          /\ Len(asteroidNormalMatrices') = Len(asteroidNormalMatrices)
          /\ Len(glInstanceData') = Len(glInstanceData)
          /\ Len(glNormalData') = Len(glNormalData)
          /\ UNCHANGED <<asteroidInstanceVBO, asteroidNormalInstanceVBO>>
          /\ UNCHANGED <<asteroidAmount, sunVars, planetVars, beltVars, controlVars, deltaTime>>]_vars

\* a full step has moved the planet and written and uploaded two instances,
\* in a store that holds a body without mass
C30_Witness ==
    /\ pc = "render"
    /\ stepped = "full"
    /\ asteroidAmount = 2
    /\ uploaded = 2
    /\ glInstanceData[2] # Unwritten
    /\ asteroidModelMatrices[2] # Unwritten
    /\ celestialBodies[2].position # Planet.position
    /\ \E i \in Bodies : celestialBodies[i].mass = 0

====
